---- MODULE Spec2Model ----
(***************************************************************************)
(* Model of cyoa_bot.py: a Streamlit chat script.  The script is executed  *)
(* top to bottom once per run; st.session_state.messages is the only state *)
(* that survives from one run to the next.  A run is started by the page   *)
(* load, by a chat_input submission, by a click on "Start New Adventure",  *)
(* by a plain rerun, or by st.rerun() at the end of the reset branch.      *)
(***************************************************************************)
EXTENDS Integers, Sequences, FiniteSets, TLC

\* ---------------------------------------------------------------- bounds
MaxTurns == 3
MaxResets == 2

\* Texts a user may submit through st.chat_input.
Prompts == {"Tell me about volcanoes", "rivers"}
\* Texts the model may generate.
Replies == {"Volcanoes are...", "Choose: A or B"}
\* Messages of the exceptions client.chat.complete may raise.
ErrorTexts == {"rate limited"}

\* ------------------------------------------------------- program literals
\* content of the system message written by the initialisation (line 24)
InitGuidance == "You are an educational choose-your-own-adventure guide. You MUST always stop after presenting choices to wait for user input. Never continue the story without user selection."
\* the reset literal drifting away from the initialisation literal
ResetGuidanceDrift == "You are an educational choose-your-own-adventure guide."

\* content of the system message written by the reset branch (line 60)
ResetGuidance == "You are an educational choose-your-own-adventure guide. You MUST always stop after presenting choices to wait for user input. Never continue the story without user selection."
\* model id passed to run_conversation (line 47)
ModelId == "ft:open-mistral-7b:f00b4002:20241120:78b6c5a8"
\* prefix of the f-string of st.error (line 53)
ErrorPrefix == "An error occurred: "
\* str() of the IndexError raised by choices[0] on an empty list (line 13)
IndexErrorText == "list index out of range"

\* ------------------------------------------------------------- variables
VARIABLES
  hasMessages,  \* "messages" in st.session_state
  messages,     \* st.session_state.messages (<<>> while the key is absent)
  pc,           \* position of the script, "idle" between two runs
  prompt,       \* value of st.chat_input in this run: <<>> is None, <<s>> is s
  clicked,      \* value of st.button in this run
  display,      \* the blocks this run has put on the page, in order
  sent,         \* arguments of the latest client.chat.complete call
  result,       \* what the collaborator answered to the call of this run
  inFlight,     \* number of client.chat.complete calls not yet returned
  nCalls,       \* number of calls started so far
  nUser,        \* number of user messages appended so far
  nResets,      \* number of resets executed so far
  failedAt,     \* positions of the user messages whose call failed
  beforeReset,  \* the history the latest reset discarded
  callLog       \* the calls of this conversation that returned a text:
                \* the messages sent and the text returned

vars == <<hasMessages, messages, pc, prompt, clicked, display, sent, result,
          inFlight, nCalls, nUser, nResets, failedAt, beforeReset, callLog>>

\* ----------------------------------------------------------------- helpers
Message(r, c) == [role |-> r, content |-> c]

Block(name, kind, body) == [name |-> name, kind |-> kind, body |-> body]

None == <<>>

NoCall == [model |-> "", messages |-> <<>>]

NoResult == [kind |-> "none"]

IsPrefix(a, b) == Len(a) <= Len(b) /\ SubSeq(b, 1, Len(a)) = a

Last(s) == s[Len(s)]

\* testing `is not None` instead of truthiness
TruthyNotNone(p) == p # None

\* Python truthiness of the walrus value in `if prompt := st.chat_input(...)`
Truthy(p) == p # None /\ p[1] # ""

\* What client.chat.complete may do: raise, or return a response object
\* with a list of choices.
Outcomes ==
  {[kind |-> "raise", msg |-> m, choices |-> <<>>] : m \in ErrorTexts}
  \cup {[kind |-> "response", msg |-> "", choices |-> c] :
          c \in {<<>>} \cup {<<r>> : r \in Replies}
                \cup {<<r1, r2>> : r1 \in Replies, r2 \in Replies}}

\* the list literal of lines 21-26
InitialMessages == <<Message("system", InitGuidance)>>

\* the list literal of lines 57-62
ResetMessages == <<Message("system", ResetGuidance)>>

\* the slice and loop of lines 29-31
RECURSIVE RenderHistory(_)
RenderHistory(msgs) ==
  IF msgs = <<>> THEN <<>>
  ELSE <<Block(Head(msgs).role, "write", Head(msgs).content)>>
         \o RenderHistory(Tail(msgs))

\* looping over the whole list, system message included
DisplayHistoryAll(msgs) == RenderHistory(msgs)

\* the slice messages[1:] handed to the loop of lines 29-31
DisplayHistory(msgs) == RenderHistory(SubSeq(msgs, 2, Len(msgs)))

\* sending the displayed slice, without the system message
CallArgumentsNoSystem(msgs, model_id) ==
  [model |-> model_id, messages |-> SubSeq(msgs, 2, Len(msgs))]

\* the arguments run_conversation hands to client.chat.complete
CallArguments(msgs, model_id) == [model |-> model_id, messages |-> msgs]

\* taking choices[-1] instead of choices[0]
run_conversationLastChoice(o) ==
  IF o.kind = "raise" THEN [raised |-> TRUE, text |-> o.msg]
  ELSE IF o.choices = <<>> THEN [raised |-> TRUE, text |-> IndexErrorText]
  ELSE [raised |-> FALSE, text |-> o.choices[Len(o.choices)]]

\* run_conversation: the exception it lets through, or the text it returns
run_conversation(o) ==
  IF o.kind = "raise" THEN [raised |-> TRUE, text |-> o.msg]
  ELSE IF o.choices = <<>> THEN [raised |-> TRUE, text |-> IndexErrorText]
  ELSE [raised |-> FALSE, text |-> o.choices[1]]

\* -------------------------------------------------------------------- Init
Init ==
  /\ hasMessages = FALSE
  /\ messages = <<>>
  /\ pc = "start"
  /\ prompt = None
  /\ clicked = FALSE
  /\ display = <<>>
  /\ sent = NoCall
  /\ result = NoResult
  /\ inFlight = 0
  /\ nCalls = 0
  /\ nUser = 0
  /\ nResets = 0
  /\ failedAt = {}
  /\ beforeReset = <<>>
  /\ callLog = {}

\* ------------------------------------------------- the user, between runs
StartRun(p, c) ==
  /\ pc = "idle"
  /\ pc' = "start"
  /\ prompt' = p
  /\ clicked' = c
  /\ display' = <<>>
  /\ result' = NoResult
  /\ UNCHANGED <<hasMessages, messages, sent, inFlight, nCalls, nUser,
                 nResets, failedAt, beforeReset, callLog>>

\* the user submits text s in the chat input
SubmitPrompt(s) ==
  /\ nUser < MaxTurns
  /\ StartRun(<<s>>, FALSE)

\* the chat input yields the empty string: the widget is specified not to,
\* the test of line 34 is written to take it as no input
SubmitEmpty == StartRun(<<"">>, FALSE)

\* the user clicks "Start New Adventure"
ClickReset ==
  /\ nResets < MaxResets
  /\ StartRun(None, TRUE)

\* the user reruns the script without touching a widget
PlainRerun == StartRun(None, FALSE)

\* ------------------------------------------------------- the script, a run
\* initialising the history on every run
ScriptTopReinitialises ==
  /\ pc = "start"
  /\ hasMessages' = TRUE
  /\ messages' = InitialMessages
  /\ display' = DisplayHistory(messages')
  /\ pc' = "input"
  /\ UNCHANGED <<prompt, clicked, sent, result, inFlight, nCalls, nUser,
                 nResets, failedAt, beforeReset, callLog>>

\* lines 16-31: initialise the history when absent, then display it
ScriptTop ==
  /\ pc = "start"
  /\ hasMessages' = TRUE
  /\ messages' = IF hasMessages THEN messages ELSE InitialMessages
  /\ display' = DisplayHistory(messages')
  /\ pc' = "input"
  /\ UNCHANGED <<prompt, clicked, sent, result, inFlight, nCalls, nUser,
                 nResets, failedAt, beforeReset, callLog>>

\* starting the call without waiting for it
ChatInputAsync ==
  /\ pc = "input"
  /\ IF Truthy(prompt)
     THEN /\ messages' = Append(messages, Message("user", prompt[1]))
          /\ display' = Append(display, Block("user", "write", prompt[1]))
          /\ sent' = [model |-> ModelId, messages |-> messages']
          /\ inFlight' = inFlight + 1
          /\ nCalls' = nCalls + 1
          /\ nUser' = nUser + 1
          /\ pc' = "button"
     ELSE /\ pc' = "button"
          /\ UNCHANGED <<messages, display, sent, inFlight, nCalls, nUser>>
  /\ UNCHANGED <<hasMessages, prompt, clicked, result, nResets, failedAt,
                 beforeReset, callLog>>

\* making the call before the user message is appended
ChatInputCallsFirst ==
  /\ pc = "input"
  /\ IF Truthy(prompt)
     THEN /\ sent' = [model |-> ModelId, messages |-> messages]
          /\ messages' = Append(messages, Message("user", prompt[1]))
          /\ display' = Append(display, Block("user", "write", prompt[1]))
          /\ inFlight' = inFlight + 1
          /\ nCalls' = nCalls + 1
          /\ nUser' = nUser + 1
          /\ pc' = "call"
     ELSE /\ pc' = "button"
          /\ UNCHANGED <<messages, display, sent, inFlight, nCalls, nUser>>
  /\ UNCHANGED <<hasMessages, prompt, clicked, result, nResets, failedAt,
                 beforeReset, callLog>>

\* displaying the user message without appending it to the history
ChatInputForgetsAppend ==
  /\ pc = "input"
  /\ IF Truthy(prompt)
     THEN /\ messages' = messages
          /\ display' = Append(display, Block("user", "write", prompt[1]))
          /\ sent' = [model |-> ModelId, messages |-> messages']
          /\ inFlight' = inFlight + 1
          /\ nCalls' = nCalls + 1
          /\ nUser' = nUser + 1
          /\ pc' = "call"
     ELSE /\ pc' = "button"
          /\ UNCHANGED <<messages, display, sent, inFlight, nCalls, nUser>>
  /\ UNCHANGED <<hasMessages, prompt, clicked, result, nResets, failedAt,
                 beforeReset, callLog>>

\* lines 34-45: append and display the user message, start the call
ChatInput ==
  /\ pc = "input"
  /\ IF Truthy(prompt)
     THEN /\ messages' = Append(messages, Message("user", prompt[1]))
          /\ display' = Append(display, Block("user", "write", prompt[1]))
          /\ sent' = CallArguments(messages', ModelId)
          /\ inFlight' = inFlight + 1
          /\ nCalls' = nCalls + 1
          /\ nUser' = nUser + 1
          /\ pc' = "call"
     ELSE /\ pc' = "button"
          /\ UNCHANGED <<messages, display, sent, inFlight, nCalls, nUser>>
  /\ UNCHANGED <<hasMessages, prompt, clicked, result, nResets, failedAt,
                 beforeReset, callLog>>

\* storing the response over the last message
TrySuccessOverwrites(response) ==
  /\ display' = Append(display, Block("assistant", "write", response))
  /\ messages' = [messages EXCEPT ![Len(messages)] = Message("assistant", response)]
  /\ pc' = "button"
  /\ UNCHANGED <<nCalls, failedAt>>

\* appending the prompt where the response belongs
TrySuccessAppendsPrompt(response) ==
  /\ display' = Append(display, Block("assistant", "write", response))
  /\ messages' = Append(messages, Message("assistant", prompt[1]))
  /\ pc' = "button"
  /\ UNCHANGED <<nCalls, failedAt>>

\* lines 49-51: display the response and append it
TrySuccess(response) ==
  /\ display' = Append(display, Block("assistant", "write", response))
  /\ messages' = Append(messages, Message("assistant", response))
  /\ pc' = "button"
  /\ UNCHANGED <<nCalls, failedAt>>

\* recording the error as the assistant's message
ExceptBranchAppends(text) ==
  /\ display' = Append(display, Block("assistant", "error", ErrorPrefix \o text))
  /\ messages' = Append(messages, Message("assistant", ErrorPrefix \o text))
  /\ failedAt' = failedAt \cup {Len(messages)}
  /\ pc' = "button"
  /\ UNCHANGED <<nCalls>>

\* taking the unanswered user message back
ExceptBranchRollsBack(text) ==
  /\ display' = Append(display, Block("assistant", "error", ErrorPrefix \o text))
  /\ messages' = SubSeq(messages, 1, Len(messages) - 1)
  /\ failedAt' = failedAt
  /\ pc' = "button"
  /\ UNCHANGED <<nCalls>>

\* calling again after a failure
ExceptBranchRetries(text) ==
  /\ display' = Append(display, Block("assistant", "error", ErrorPrefix \o text))
  /\ messages' = messages
  /\ failedAt' = failedAt \cup {Len(messages)}
  /\ pc' = "call"
  /\ nCalls' = nCalls + 1

\* showing a fixed text instead of the exception's
ExceptBranchGeneric(text) ==
  /\ display' = Append(display, Block("assistant", "error", ErrorPrefix))
  /\ messages' = messages
  /\ failedAt' = failedAt \cup {Len(messages)}
  /\ pc' = "button"
  /\ UNCHANGED <<nCalls>>

\* lines 52-53: display the error
ExceptBranch(text) ==
  /\ display' = Append(display, Block("assistant", "error", ErrorPrefix \o text))
  /\ messages' = messages
  /\ failedAt' = failedAt \cup {Len(messages)}
  /\ pc' = "button"
  /\ UNCHANGED <<nCalls>>

\* lines 43-53: the call returns or raises, the try block finishes
GetBotResponse(o) ==
  /\ pc = "call"
  /\ result' = o
  /\ inFlight' = inFlight - 1
  /\ LET r == run_conversation(o) IN
       IF r.raised
       THEN /\ ExceptBranch(r.text)
            /\ callLog' = callLog
       ELSE /\ TrySuccess(r.text)
            /\ callLog' = callLog \cup {[messages |-> sent.messages, text |-> r.text]}
  /\ UNCHANGED <<hasMessages, prompt, clicked, sent, nUser, nResets,
                 beforeReset>>

\* resetting to an empty list
ResetButtonEmpties ==
  /\ pc = "button"
  /\ IF clicked
     THEN /\ messages' = <<>>
          /\ beforeReset' = messages
          /\ nResets' = nResets + 1
          /\ failedAt' = {}
          /\ callLog' = {}
          /\ pc' = "rerun"
     ELSE /\ pc' = "idle"
          /\ UNCHANGED <<messages, beforeReset, nResets, failedAt, callLog>>
  /\ UNCHANGED <<hasMessages, prompt, clicked, display, sent, result,
                 inFlight, nCalls, nUser>>

\* lines 56-63: the reset button
ResetButton ==
  /\ pc = "button"
  /\ IF clicked
     THEN /\ messages' = ResetMessages
          /\ beforeReset' = messages
          /\ nResets' = nResets + 1
          /\ failedAt' = {}
          /\ callLog' = {}
          /\ pc' = "rerun"
     ELSE /\ pc' = "idle"
          /\ UNCHANGED <<messages, beforeReset, nResets, failedAt, callLog>>
  /\ UNCHANGED <<hasMessages, prompt, clicked, display, sent, result,
                 inFlight, nCalls, nUser>>

\* st.rerun() (line 63): the script is run again from the top, no widget set
Rerun ==
  /\ pc = "rerun"
  /\ pc' = "start"
  /\ prompt' = None
  /\ clicked' = FALSE
  /\ display' = <<>>
  /\ result' = NoResult
  /\ UNCHANGED <<hasMessages, messages, sent, inFlight, nCalls, nUser,
                 nResets, failedAt, beforeReset, callLog>>

Next ==
  \/ \E s \in Prompts : SubmitPrompt(s)
  \/ SubmitEmpty
  \/ ClickReset
  \/ PlainRerun
  \/ ScriptTop
  \/ ChatInput
  \/ \E o \in Outcomes : GetBotResponse(o)
  \/ ResetButton
  \/ Rerun

Spec == Init /\ [][Next]_vars

TypeOK ==
  /\ hasMessages \in BOOLEAN
  /\ pc \in {"idle", "start", "input", "call", "button", "rerun"}
  /\ clicked \in BOOLEAN
  /\ inFlight \in 0..1
  /\ nCalls \in 0..MaxTurns
  /\ nUser \in 0..MaxTurns
  /\ nResets \in 0..MaxResets

\* ------------------------------------------------------------------ claims
Role(i) == messages[i].role

\* the turn of this run has just ended in the except branch
TurnFailed ==
  /\ pc = "button"
  /\ result.kind # "none"
  /\ run_conversation(result).raised

\* the turn of this run has just ended in the try block
TurnSucceeded ==
  /\ pc = "button"
  /\ result.kind # "none"
  /\ ~run_conversation(result).raised

\* C1 as stated: after the system message the roles are user, assistant,
\* user, assistant, ...; the history may at most end with an unanswered user
\* message.
C1_StrictAlternation ==
  hasMessages =>
    \A i \in 2..Len(messages) :
      Role(i) = IF i % 2 = 0 THEN "user" ELSE "assistant"

\* C1 amended: after the system message every message is a user or an
\* assistant message and the first is a user message; an assistant message
\* is never followed by an assistant message; two adjacent messages have the
\* same role exactly when both are user messages and the call made for the
\* first of them failed.
C1_AlternationUpToFailedTurns ==
  hasMessages =>
    \A i \in 2..Len(messages) :
      /\ Role(i) \in {"user", "assistant"}
      /\ (i = 2) => Role(i) = "user"
      /\ (Role(i) = Role(i - 1)) <=> (Role(i - 1) = "user" /\ (i - 1) \in failedAt)

\* C1 witness: a failed turn, then a new submission that was answered
C1_Witness ==
  /\ Len(messages) >= 4
  /\ 2 \in failedAt
  /\ Role(2) = "user" /\ Role(3) = "user" /\ Role(4) = "assistant"

\* C2: the history is never empty, its first element is the system message
\* with the fixed guidance text, no other element has role system, and no
\* step, reset included, leaves a different first element behind.
C2_SystemMessageFirst ==
  /\ [](hasMessages =>
          /\ Len(messages) >= 1
          /\ messages[1] = Message("system", InitGuidance)
          /\ \A i \in 2..Len(messages) : Role(i) # "system")
  /\ [][hasMessages => (Len(messages') >= 1 /\ messages'[1] = messages[1])]_vars

\* C2 witness: a reset has replaced the history of a conversation
C2_Witness ==
  /\ pc = "rerun"
  /\ Len(beforeReset) >= 3
  /\ messages[1].role = "system"

\* C3: after a failed call the history is the one that was sent: same
\* length, no assistant message appended, last element the user message
\* just submitted.
C3_FailureLeavesHistory ==
  TurnFailed =>
    /\ messages = sent.messages
    /\ Len(messages) = Len(sent.messages)
    /\ Last(messages) = Message("user", prompt[1])

\* C3 witness: a call failed after an earlier turn had succeeded
C3_Witness ==
  /\ TurnFailed
  /\ Len(messages) >= 4
  /\ Role(3) = "assistant"

\* C4: what is sent on a call is the whole history at that moment, in
\* order, from the system message to the user message just appended.
C4_SentIsFullHistory ==
  (pc = "call") =>
    /\ sent.messages = messages
    /\ sent.model = "ft:open-mistral-7b:f00b4002:20241120:78b6c5a8"
    /\ Head(sent.messages) = Message("system", InitGuidance)
    /\ Last(sent.messages) = Message("user", prompt[1])
    /\ Len(sent.messages) >= 2

\* C4 witness: a call made after a reset and after a failed turn
C4_Witness ==
  /\ pc = "call"
  /\ nResets >= 1
  /\ failedAt # {}
  /\ Len(sent.messages) >= 3

\* C5 as stated: the error text displayed is exactly the failure's message.
C5_ErrorShownBare ==
  TurnFailed => Last(display).body = run_conversation(result).text

\* C5 amended: the error text displayed is "An error occurred: " followed by
\* the failure's message, verbatim, as an error block in the assistant's
\* chat message.
C5_ErrorShownWithPrefix ==
  TurnFailed =>
    /\ Last(display).name = "assistant"
    /\ Last(display).kind = "error"
    /\ Last(display).body = "An error occurred: " \o run_conversation(result).text
    /\ (result.kind = "raise" /\ result.msg = "rate limited")
         => Last(display).body = "An error occurred: rate limited"

\* C5 witness: the call failed with "rate limited"
C5_Witness ==
  /\ TurnFailed
  /\ result.kind = "raise"
  /\ result.msg = "rate limited"
  /\ Last(display).kind = "error"

\* the step is the assignment of the reset branch (lines 57-62)
ResetStep == pc = "button" /\ clicked

\* C6: a reset, from whatever history, leaves exactly the one-element history
\* holding the system message with the original guidance text, which is the
\* history the initialisation creates; a reset of an already reset history
\* leaves it as it is.
C6_ResetYieldsInitialHistory ==
  /\ [](pc = "rerun" =>
          /\ messages = <<Message("system", InitGuidance)>>
          /\ messages = InitialMessages
          /\ Len(messages) = 1)
  /\ [][(ResetStep /\ Len(messages) = 1) => messages' = messages]_vars

\* C6 witness: a second reset in a row, after a conversation
C6_Witness ==
  /\ pc = "rerun"
  /\ nResets = 2
  /\ nUser >= 1
  /\ beforeReset = messages

\* C7: every step other than a reset leaves the old history as a prefix of
\* the new one.
C7_AppendOnlyBetweenResets ==
  [][~ResetStep => IsPrefix(messages, messages')]_vars

\* C7 witness: two answered turns and an unanswered one in one history
C7_Witness ==
  /\ Len(messages) >= 5
  /\ failedAt # {}
  /\ nResets = 0

\* C8: after a successful call returning r the history is the one sent plus
\* one element, that element is the assistant message with content r, and r
\* is what the assistant's chat message displays.
C8_SuccessAppendsReply ==
  TurnSucceeded =>
    /\ Len(messages) = Len(sent.messages) + 1
    /\ SubSeq(messages, 1, Len(messages) - 1) = sent.messages
    /\ Last(messages) = Message("assistant", result.choices[1])
    /\ Last(display) = Block("assistant", "write", result.choices[1])

\* C8 witness: a response with two different choices, in a later turn
C8_Witness ==
  /\ TurnSucceeded
  /\ Len(result.choices) = 2
  /\ result.choices[1] # result.choices[2]
  /\ Len(messages) >= 5

\* C9: calls and user messages go one to one: a call starts only in the step
\* that appends the submitted user message, a failed call is followed by the
\* rest of the run without another call, and a submission after a failure is
\* appended and calls like any other.
C9_NoRetryOneCallPerUserMessage ==
  /\ [](nCalls = nUser)
  /\ [][(nCalls' # nCalls) =>
          /\ pc = "input" /\ Truthy(prompt)
          /\ nCalls' = nCalls + 1
          /\ messages' = Append(messages, Message("user", prompt[1]))]_vars
  /\ [][(pc = "input" /\ Truthy(prompt)) =>
          /\ pc' = "call"
          /\ nCalls' = nCalls + 1
          /\ messages' = Append(messages, Message("user", prompt[1]))]_vars
  /\ [][(pc = "call" /\ run_conversation(result').raised) =>
          (pc' = "button" /\ nCalls' = nCalls)]_vars

\* C9 witness: a call in flight for a submission made after a failed turn
C9_Witness ==
  /\ pc = "call"
  /\ failedAt # {}
  /\ nCalls >= 2
  /\ Len(messages) - 1 \in failedAt

\* C10: at most one call is in flight, it is in flight exactly while the
\* script waits in the try block, it starts only from a submitted prompt,
\* and while it is in flight the only step is its completion: no submission,
\* no click, no reset, no other change of the history.
C10_OneCallInFlight ==
  /\ [](inFlight \in {0, 1} /\ (inFlight = 1 <=> pc = "call"))
  /\ [][(inFlight' > inFlight) => (pc = "input" /\ Truthy(prompt))]_vars
  /\ [][(inFlight > 0) =>
          /\ inFlight' = inFlight - 1
          /\ prompt' = prompt /\ clicked' = clicked
          /\ nUser' = nUser /\ nResets' = nResets
          /\ \/ messages' = messages
             \/ \E r \in Replies : messages' = Append(messages, Message("assistant", r))]_vars

\* C10 witness: the second call of a session in flight
C10_Witness ==
  /\ pc = "call"
  /\ inFlight = 1
  /\ nCalls = 2
  /\ nResets = 1

\* the step is the turn handler taking a submitted, non-empty text
UserAppendStep == pc = "input" /\ prompt # None /\ prompt[1] # ""

\* C11: the handler of a non-empty submission s makes the history one longer,
\* keeps what was there, puts the user message with content s last, and only
\* then makes the call: the history the call is given already ends with it.
C11_UserAppend ==
  [][UserAppendStep =>
       /\ Len(messages') = Len(messages) + 1
       /\ SubSeq(messages', 1, Len(messages)) = messages
       /\ messages'[Len(messages')] = [role |-> "user", content |-> prompt[1]]
       /\ inFlight' = 1
       /\ sent'.messages[Len(sent'.messages)] = [role |-> "user", content |-> prompt[1]]
       /\ Len(sent'.messages) = Len(messages) + 1]_vars

\* C11 witness: the second prompt of a conversation has been appended
C11_Witness ==
  /\ pc = "call"
  /\ Len(messages) = 4
  /\ messages[4] = Message("user", "rivers")
  /\ messages[2] = Message("user", "Tell me about volcanoes")

\* the step is the turn handler finding no text: None or the empty string
EmptySubmissionStep == pc = "input" /\ (prompt = None \/ prompt = <<"">>)

\* C12: with no input or an empty string the handler does nothing: the
\* history, the page and the calls made stay as they are and the script goes
\* on to the reset button.
C12_EmptySubmissionNoOp ==
  [][EmptySubmissionStep =>
       /\ messages' = messages
       /\ display' = display
       /\ nCalls' = nCalls
       /\ inFlight' = inFlight
       /\ sent' = sent
       /\ pc' = "button"]_vars

\* C12 witness: an empty string was submitted in a conversation and skipped
C12_Witness ==
  /\ pc = "button"
  /\ prompt = <<"">>
  /\ Len(messages) >= 3
  /\ display = DisplayHistory(messages)
  /\ nCalls = 1

\* the script run has ended and its call, if it made one, did not fail
RunEndedWithoutFailure ==
  /\ pc = "idle"
  /\ result.kind # "raise"
  /\ (result.kind = "response") => result.choices # <<>>

\* C13: at the end of a run without a failed call the page shows, block for
\* block and in order, the history without its first element, each block
\* tagged with the message's role; no block ever shows the system message.
C13_DisplayIsProjection ==
  /\ RunEndedWithoutFailure =>
       /\ Len(display) = Len(messages) - 1
       /\ \A i \in 1..Len(display) :
            display[i] = [name |-> messages[i + 1].role, kind |-> "write",
                          body |-> messages[i + 1].content]
  /\ \A i \in 1..Len(display) :
       display[i].name # "system" /\ display[i].body # InitGuidance

\* C13 witness: a run that answered a prompt, in a history holding an
\* earlier unanswered one, after a reset
C13_Witness ==
  /\ RunEndedWithoutFailure
  /\ result.kind = "response"
  /\ nResets >= 1
  /\ Len(display) = 3
  /\ 2 \in failedAt

\* the positions of the history holding a message of role r
PositionsOf(r) == {i \in 1..Len(messages) : messages[i].role = r}

\* C14: every assistant message stands right after a user message, never
\* after the system message or another assistant message, so the history
\* never holds more assistant messages than user messages.
C14_AssistantFollowsUser ==
  /\ \A i \in PositionsOf("assistant") : i >= 3 /\ messages[i - 1].role = "user"
  /\ Cardinality(PositionsOf("assistant")) <= Cardinality(PositionsOf("user"))

\* C14 witness: two assistant messages, and more user messages than that
C14_Witness ==
  /\ Cardinality(PositionsOf("assistant")) = 2
  /\ Cardinality(PositionsOf("user")) = 3
  /\ messages[Len(messages)].role = "assistant"

\* the script is inside a run that no widget started
InRunWithoutInput ==
  /\ pc \in {"start", "input", "button"}
  /\ prompt = None
  /\ clicked = FALSE

\* C15: the initialisation at the top of a run writes the history only when
\* the key is absent and leaves an existing history as it is; no step of a
\* run without submission and without click changes an existing history.
C15_RunWithoutInputKeepsHistory ==
  /\ [][(pc = "start" /\ hasMessages) =>
          (hasMessages' /\ messages' = messages)]_vars
  /\ [][(pc = "start" /\ ~hasMessages) =>
          (hasMessages' /\ messages' = <<[role |-> "system", content |-> InitGuidance]>>)]_vars
  /\ [][(InRunWithoutInput /\ hasMessages) => messages' = messages]_vars

\* C15 witness: a run without input has ended on a conversation of two turns
C15_Witness ==
  /\ pc = "idle"
  /\ prompt = None
  /\ clicked = FALSE
  /\ Len(messages) >= 5
  /\ display = DisplayHistory(messages)

\* C16: every assistant message is the reply of a call that returned: some
\* successful call was sent exactly the messages standing before it and
\* returned, as its first choice, exactly its content.
C16_AssistantIsReplyToPrefix ==
  \A i \in 1..Len(messages) :
    (messages[i].role = "assistant") =>
      \E c \in callLog :
        /\ c.messages = SubSeq(messages, 1, i - 1)
        /\ c.text = messages[i].content

\* C16 witness: two assistant messages with different contents, the second
\* the reply to a history holding the first and an unanswered user message
C16_Witness ==
  /\ Len(messages) = 6
  /\ messages[3].role = "assistant"
  /\ messages[6].role = "assistant"
  /\ messages[3].content # messages[6].content
  /\ 4 \in failedAt
====
